---- MODULE Spec2Model ----
(***************************************************************************)
(* plansync-backend: the Flask request handlers of app/routes/auth.py and  *)
(* app/routes/plans.py, the entity accessors of app/models/*.py and the    *)
(* cached Supabase client of app/supabase_client.py.                       *)
(*                                                                         *)
(* The hosted service is the environment: its tables (plans, guests,       *)
(* guest_phones, event_tasks) and its set of live access tokens are state  *)
(* variables; every gateway call may raise.  A handler runs to completion  *)
(* in one step; get_client is stepped line by line, one position per       *)
(* thread, and SpecThreads steps add_guest and delete_guest one gateway    *)
(* round trip at a time.  Codes.X stands for its value, the number         *)
(* status_codes.py gives it and tells the routes to return (.value).       *)
(* A request body is JSON null or a JSON object.                          *)
(* Of a plan row the model keeps id, user_id, guest_count, updated_at; of  *)
(* a guest row id, plan_id, rsvp_status, is_invitation_sent.               *)
(***************************************************************************)
EXTENDS Integers, FiniteSets, Sequences, TLC

VARIABLES
    supabase,   \* auth.py:64-69 module global: "client" or "None"
    session,    \* the cached client's current auth session (a user or "None")
    valid,      \* auth service: access tokens it still resolves
    plans,      \* table plans:        plan id  -> row or NoRow
    guests,     \* table guests:       guest id -> row or NoRow
    phones,     \* table guest_phones: phone id -> row or NoRow
    tasks,      \* table event_tasks:  task id  -> row or NoRow
    now,        \* datetime.utcnow(), as a counter
    req,        \* the request handled last
    resp,       \* its response
    calls,      \* entity accessor methods it invoked
    faults,     \* gateway calls that raised while it was handled
    before,     \* the tables and the time it found, and the exchange before it
    returned,   \* the entity accessor method called last and what it returned
    env,        \* whether SUPABASE_URL and SUPABASE_KEY are set
    instance,   \* SupabaseClient._instance
    built,      \* create_client calls so far
    pc,         \* each thread's position in get_client
    handed,     \* what get_client returned to each thread
    frame,      \* each thread's position and locals in add_guest, delete_guest
    served      \* the 201 answers of add_guest and the success answers of
                \* delete_guest sent by the threads so far

store == <<plans, guests, phones, tasks>>
hist == <<req, resp, calls, faults, before>>
gateway == <<env, instance, built, pc, handed>>
workers == <<frame, served>>
vars == <<supabase, session, valid, plans, guests, phones, tasks, now,
          req, resp, calls, faults, before, returned, env, instance, built, pc, handed,
          frame, served>>

---------------------------------------------------------------------------
(* Bounds *)

MaxCount == 2       \* guest_count values are 0..MaxCount
MaxClock == 1       \* utcnow() values are 0..MaxClock
MaxServed == 3      \* requests the handler threads take up, in all

Users == {"uA", "uB"}
Threads == {"main", "t1", "t2"}     \* main imports the routes, t1 and t2 serve
PlanIds == {"p1", "p2"}
GuestIds == {"g1", "g2"}
PhoneIds == {"f1", "f2"}
TaskIds == {"k1"}

None == "None"
NoRow == [absent |-> TRUE]
Null == [null |-> TRUE]         \* request body is JSON null

---------------------------------------------------------------------------
(* status_codes.py *)

SUCCESS == 201
ERROR == 400
NOT_FOUND == 404
UNAUTHORISED_ACCESS == 401
SERVICE_NOT_AVAILABLE == 500

---------------------------------------------------------------------------
(* Requests *)

TokenOf(u) == IF u = "uA" THEN "tA" ELSE "tB"
UserOf(t) == IF t = "tA" THEN "uA" ELSE "uB"
Tokens == {TokenOf(u) : u \in Users}

NoHeader == [scheme |-> None, token |-> None]
Bearer(t) == [scheme |-> "Bearer ", token |-> t]
\* "Bearer  x" (two spaces) and "Bearer " both split to the empty token
Headers == {NoHeader, [scheme |-> "Basic ", token |-> "tA"],
            Bearer("tA"), Bearer("tB"), Bearer("")}
\* the headers of the guest routes' callers: none, or a user's token
Callers == {NoHeader, Bearer("tA"), Bearer("tB")}

Request(ep, hdr, p, g, body) ==
    [ep |-> ep, hdr |-> hdr, plan |-> p, guest |-> g, body |-> body]
NoRequest == Request(None, NoHeader, None, None, Null)

\* a response: the status, the body's error or message, of the auth
\* routes' bodies user.id and access_token, of the guest routes' bodies the
\* guest, and of get_guests' body count and rsvp_stats
Response(status, error, message, user, token) ==
    [status |-> status, error |-> error, message |-> message, user |-> user,
     access_token |-> token, guest |-> NoRow, listing |-> NoRow]
Ok(status, message) == Response(status, "", message, None, None)
Err(status, error) == Response(status, error, "", None, None)
NoResponse == Response(0, "", "", None, None)

\* A JSON object is a record: keys, the keys it has, and one field per key
\* the handlers read (holding "" or 0 when the key is missing).
Has(data, k) == k \in data.keys
\* `not data.get(k)` for a string value: missing or ""
Falsy(data, k) == ~Has(data, k) \/ data[k] = ""
\* `not data`: JSON null, or an object with no keys
NoData(body) == body = Null \/ body.keys = {}

\* which gateway calls raise in one request: none, or all uses of one
GatewayCalls == {"auth.get_user", "plans.select", "plans.insert", "plans.update",
                 "plans.delete", "guests.insert", "guests.select", "guests.update",
                 "guests.delete", "guest_phones.insert", "guest_phones.select",
                 "event_tasks.insert"}
Faults(C) == {{}} \cup {{c} : c \in C}

---------------------------------------------------------------------------
(* supabase_client.py and the auth client it holds *)

\* get_client(): raises whenever no client could be built
ClientUp == supabase = "client"

\* auth.get_user(jwt): with a falsy jwt the client falls back to the token
\* of its own current session; the service resolves live tokens only.
\* Result: a user, or None for "returned nothing or raised".
AuthGetUser(jwt) ==
    IF jwt \in {"", None}
    THEN IF session # None /\ TokenOf(session) \in valid THEN session ELSE None
    ELSE IF jwt \in valid THEN UserOf(jwt) ELSE None

---------------------------------------------------------------------------
(* routes/plans.py: get_current_user *)

get_current_user(hdr, F) ==
    IF hdr = NoHeader \/ hdr.scheme # "Bearer " THEN None
    ELSE IF ~ClientUp \/ "auth.get_user" \in F THEN None
    ELSE AuthGetUser(hdr.token)

---------------------------------------------------------------------------
(* Gateway: a table call raises when no client can be built or when the    *)
(* service fails.                                                          *)

Raises(call, F) == ~ClientUp \/ call \in F
Raised(call, F) == IF Raises(call, F) THEN {call} ELSE {}

\* the id the service gives the next inserted row of a table
FreeIds(tbl) == {i \in DOMAIN tbl : tbl[i] = NoRow}
NewId(tbl) == CHOOSE i \in FreeIds(tbl) : TRUE

\* datetime.fromisoformat(s.replace('Z', '+00:00')).isoformat()
ReplaceZ(s) == IF s = "2026-06-01T10:00:00Z" THEN "2026-06-01T10:00:00+00:00" ELSE s
ValueError == "ValueError"
\* a parser that accepts every string
fromisoformat_any(s) == s

fromisoformat(s) ==
    IF s = "2026-06-01T10:00:00+00:00" THEN "2026-06-01T10:00:00+00:00"
    ELSE ValueError

---------------------------------------------------------------------------
(* models/plan.py *)

PlanRow(id, user_id, guest_count, updated_at) ==
    [id |-> id, user_id |-> user_id, guest_count |-> guest_count,
     updated_at |-> updated_at]

\* Plan.create: one insert; the new row, or NoRow (None) when it raised
Plan_create(user_id, guest_count, F) ==
    IF Raises("plans.insert", F)
    THEN [val |-> NoRow, plans |-> plans, raised |-> {"plans.insert"}]
    ELSE LET id == NewId(plans)
             row == PlanRow(id, user_id, guest_count, now)
         IN [val |-> row, plans |-> [plans EXCEPT ![id] = row], raised |-> {}]

\* Plan.get_by_id: response.data[0], or None when no row or it raised
Plan_get_by_id(plan_id, F) ==
    IF Raises("plans.select", F)
    THEN [val |-> NoRow, raised |-> {"plans.select"}]
    ELSE [val |-> plans[plan_id], raised |-> {}]

\* the row after update(updates): every key the caller sent is written
\* a payload application that adds to guest_count instead of setting it
ApplyPlanUpdates_add(row, updates) ==
    [row EXCEPT !.guest_count = IF Has(updates, "guest_count")
                                THEN (@ + updates.guest_count) % 8 ELSE @,
                !.user_id = IF Has(updates, "user_id") THEN updates.user_id ELSE @]

ApplyPlanUpdates(row, updates) ==
    [row EXCEPT !.guest_count = IF Has(updates, "guest_count") THEN updates.guest_count ELSE @,
                !.user_id = IF Has(updates, "user_id") THEN updates.user_id ELSE @]

\* updates['updated_at'] = datetime.utcnow().isoformat()
StampPlan(row) == [row EXCEPT !.updated_at = now]

\* Plan.update over table pl: stamps updated_at, one update; the new row, or None
Plan_update(pl, plan_id, updates, F) ==
    IF Raises("plans.update", F)
    THEN [val |-> NoRow, plans |-> pl, raised |-> {"plans.update"}]
    ELSE IF pl[plan_id] = NoRow
    THEN [val |-> NoRow, plans |-> pl, raised |-> {}]
    ELSE LET row == StampPlan(ApplyPlanUpdates(pl[plan_id], updates))
         IN [val |-> row, plans |-> [pl EXCEPT ![plan_id] = row], raised |-> {}]

PlanUpdates(keys, title, guest_count, user_id) ==
    [keys |-> keys, title |-> title, guest_count |-> guest_count, user_id |-> user_id]
OnlyCount(n) == PlanUpdates({"guest_count"}, "", n, "")

\* Plan.delete: one delete; True when a row was deleted.  The guests and
\* tasks of the plan go with it (foreign keys of the hosted schema).
Plan_delete(plan_id, F) ==
    IF Raises("plans.delete", F)
    THEN [val |-> FALSE, plans |-> plans, guests |-> guests, phones |-> phones,
          tasks |-> tasks, raised |-> {"plans.delete"}]
    ELSE LET gone == {g \in GuestIds : guests[g] # NoRow /\ guests[g].plan_id = plan_id}
         IN [val |-> plans[plan_id] # NoRow,
             plans |-> [plans EXCEPT ![plan_id] = NoRow],
             guests |-> [g \in GuestIds |-> IF g \in gone THEN NoRow ELSE guests[g]],
             phones |-> [f \in PhoneIds |->
                          IF phones[f] # NoRow /\ phones[f].guest_id \in gone
                          THEN NoRow ELSE phones[f]],
             tasks |-> [k \in TaskIds |->
                          IF tasks[k] # NoRow /\ tasks[k].plan_id = plan_id
                          THEN NoRow ELSE tasks[k]],
             raised |-> {}]

\* Plan.get_user_plans: the caller's rows, or [] when it raised
Plan_get_user_plans(user_id, F) ==
    IF Raises("plans.select", F)
    THEN [val |-> {}, raised |-> {"plans.select"}]
    ELSE [val |-> {p \in PlanIds : plans[p] # NoRow /\ plans[p].user_id = user_id},
          raised |-> {}]

---------------------------------------------------------------------------
(* models/guest.py *)

RSVP_OPTIONS == {"pending", "confirmed", "declined", "maybe"}

GuestRow(id, plan_id, rsvp_status, invited) ==
    [id |-> id, plan_id |-> plan_id, rsvp_status |-> rsvp_status,
     is_invitation_sent |-> invited]

PhoneEntry(keys, number, type, is_primary) ==
    [keys |-> keys, number |-> number, type |-> type, is_primary |-> is_primary]

\* phone_entry of add_phone_numbers: type defaults to mobile, is_primary to False
PhoneRow(id, guest_id, phone) ==
    [id |-> id, guest_id |-> guest_id, phone_number |-> phone.number,
     phone_type |-> IF Has(phone, "type") THEN phone.type ELSE "mobile",
     is_primary |-> IF Has(phone, "is_primary") THEN phone.is_primary ELSE FALSE]

RECURSIVE InsertPhones(_, _, _)
InsertPhones(ph, guest_id, list) ==
    IF list = <<>> THEN ph
    ELSE LET id == NewId(ph)
         IN InsertPhones([ph EXCEPT ![id] = PhoneRow(id, guest_id, Head(list))],
                         guest_id, Tail(list))

\* Guest.add_phone_numbers over tables gu, ph: one batch insert; the rows
\* created, or [] when it raised (a guest_id with no guest row is refused
\* by the service)
Guest_add_phone_numbers(gu, ph, guest_id, list, F) ==
    IF Raises("guest_phones.insert", F) \/ gu[guest_id] = NoRow
    THEN [val |-> {}, phones |-> ph, raised |-> {"guest_phones.insert"}]
    ELSE LET new == InsertPhones(ph, guest_id, list)
         IN [val |-> {f \in PhoneIds : new[f] # ph[f]}, phones |-> new, raised |-> {}]

\* the guest as the routes return it: guest_data with its phone_numbers
GuestJson(row, ph, ids) == [row |-> row, phone_numbers |-> {ph[f] : f \in ids}]
WithGuest(r, json) == [r EXCEPT !.guest = json]

PhonesOf(ph, guest_id) ==
    {f \in PhoneIds : ph[f] # NoRow /\ ph[f].guest_id = guest_id}

\* Guest.get_by_id over tables gu, ph: the guest row with its phone rows, or
\* None when there is no row or either select raised
Guest_get_by_id(gu, ph, guest_id, F) ==
    IF Raises("guests.select", F)
    THEN [val |-> NoRow, phone_numbers |-> {}, raised |-> {"guests.select"}]
    ELSE IF gu[guest_id] = NoRow
    THEN [val |-> NoRow, phone_numbers |-> {}, raised |-> {}]
    ELSE IF Raises("guest_phones.select", F)
    THEN [val |-> NoRow, phone_numbers |-> {}, raised |-> {"guest_phones.select"}]
    ELSE [val |-> gu[guest_id], phone_numbers |-> PhonesOf(ph, guest_id), raised |-> {}]

\* Guest.create: insert the guest, add its phones, re-read it
Guest_create(plan_id, rsvp_status, list, F) ==
    IF Raises("guests.insert", F)
    THEN [val |-> NoRow, phone_numbers |-> {}, guests |-> guests, phones |-> phones,
          raised |-> {"guests.insert"}]
    ELSE LET id == NewId(guests)
             gu == [guests EXCEPT ![id] = GuestRow(id, plan_id, rsvp_status, FALSE)]
             added == IF list # <<>>
                      THEN Guest_add_phone_numbers(gu, phones, id, list, F)
                      ELSE [val |-> {}, phones |-> phones, raised |-> {}]
             got == Guest_get_by_id(gu, added.phones, id, F)
         IN [val |-> got.val, phone_numbers |-> got.phone_numbers,
             guests |-> gu, phones |-> added.phones,
             raised |-> added.raised \cup got.raised]

GuestUpdates(keys, rsvp_status, plan_id, invited) ==
    [keys |-> keys, rsvp_status |-> rsvp_status, plan_id |-> plan_id,
     is_invitation_sent |-> invited]

ApplyGuestUpdates_flip(row, updates) ==
    [row EXCEPT
       !.rsvp_status = IF Has(updates, "rsvp_status") THEN updates.rsvp_status ELSE @,
       !.plan_id = IF Has(updates, "plan_id") THEN updates.plan_id ELSE @,
       !.is_invitation_sent = ~@]

ApplyGuestUpdates(row, updates) ==
    [row EXCEPT
       !.rsvp_status = IF Has(updates, "rsvp_status") THEN updates.rsvp_status ELSE @,
       !.plan_id = IF Has(updates, "plan_id") THEN updates.plan_id ELSE @,
       !.is_invitation_sent =
           IF Has(updates, "is_invitation_sent") THEN updates.is_invitation_sent ELSE @]

\* Guest.update: one update, then the guest re-read; None when no row
\* matched or a call raised
Guest_update(guest_id, updates, F) ==
    IF Raises("guests.update", F)
    THEN [val |-> NoRow, phone_numbers |-> {}, guests |-> guests,
          raised |-> {"guests.update"}]
    ELSE IF guests[guest_id] = NoRow
    THEN [val |-> NoRow, phone_numbers |-> {}, guests |-> guests, raised |-> {}]
    \* a plan_id with no plan row is refused by the service
    ELSE IF Has(updates, "plan_id") /\ plans[updates.plan_id] = NoRow
    THEN [val |-> NoRow, phone_numbers |-> {}, guests |-> guests,
          raised |-> {"guests.update"}]
    ELSE LET gu == [guests EXCEPT ![guest_id] = ApplyGuestUpdates(@, updates)]
             got == Guest_get_by_id(gu, phones, guest_id, F)
         IN [val |-> got.val, phone_numbers |-> got.phone_numbers, guests |-> gu,
             raised |-> got.raised]

Guest_update_rsvp(guest_id, rsvp_status, F) ==
    Guest_update(guest_id, GuestUpdates({"rsvp_status"}, rsvp_status, "", FALSE), F)

Guest_mark_invitation_sent(guest_id, F) ==
    Guest_update(guest_id, GuestUpdates({"is_invitation_sent"}, "", "", TRUE), F)

\* Guest.delete: one delete (its phone rows go with it); True when a row
\* was deleted
Guest_delete(guest_id, F) ==
    IF Raises("guests.delete", F)
    THEN [val |-> FALSE, guests |-> guests, phones |-> phones,
          raised |-> {"guests.delete"}]
    ELSE [val |-> guests[guest_id] # NoRow,
          guests |-> [guests EXCEPT ![guest_id] = NoRow],
          phones |-> [f \in PhoneIds |->
                        IF f \in PhonesOf(phones, guest_id) THEN NoRow ELSE phones[f]],
          raised |-> {}]

\* a grouping that hands every fetched phone to every guest
PhonesByGuest_all(ph, fetched, guest_id) == fetched

\* phones_by_guest.get(guest['id'], []): of the phone rows fetched in the one
\* batch, those filed under the guest's id
PhonesByGuest(ph, fetched, guest_id) ==
    {f \in fetched : ph[f].guest_id = guest_id}

\* Guest.get_plan_guests: the guests of the plan, each with the phones of
\* the batch grouped under its id, or [] when a select raised
Guest_get_plan_guests(plan_id, F) ==
    IF Raises("guests.select", F)
    THEN [val |-> {}, raised |-> {"guests.select"}]
    ELSE LET ids == {g \in GuestIds : guests[g] # NoRow /\ guests[g].plan_id = plan_id}
             fetched == {f \in PhoneIds : phones[f] # NoRow /\ phones[f].guest_id \in ids}
         IN IF ids # {} /\ Raises("guest_phones.select", F)
            THEN [val |-> {}, raised |-> {"guest_phones.select"}]
            ELSE [val |-> {GuestJson(guests[g], phones,
                                     PhonesByGuest(phones, fetched, g)) : g \in ids},
                  raised |-> {}]

---------------------------------------------------------------------------
(* models/event_task.py *)

\* EventTask.create_task: one insert; the new row, or None when it raised
EventTask_create_task(plan_id, title, F) ==
    IF Raises("event_tasks.insert", F)
    THEN [val |-> NoRow, tasks |-> tasks, raised |-> {"event_tasks.insert"}]
    ELSE LET id == NewId(tasks)
             row == [id |-> id, plan_id |-> plan_id, title |-> title]
         IN [val |-> row, tasks |-> [tasks EXCEPT ![id] = row], raised |-> {}]

---------------------------------------------------------------------------
(* routes/plans.py: the handlers.  Each gives the response, the accessor   *)
(* methods invoked, the gateway calls that raised and the tables after.    *)

Outcome(r, c, rs, pl, gu, ph, ta) ==
    [resp |-> r, calls |-> c, raised |-> rs,
     plans |-> pl, guests |-> gu, phones |-> ph, tasks |-> ta]
Reply(r, c, rs) == Outcome(r, c, rs, plans, guests, phones, tasks)

\* an exception no handler catches: Flask's own 500 page, no {"error"} body
Crash(c, rs) ==
    Reply(Response(500, "", "Internal Server Error", None, None), c, rs)

GuardRaised(hdr, F) ==
    IF hdr # NoHeader /\ hdr.scheme = "Bearer " THEN Raised("auth.get_user", F) ELSE {}

Unauthorized(hdr, F) ==
    Reply(Err(UNAUTHORISED_ACCESS, "Unauthorized"), {}, GuardRaised(hdr, F))

PlanNotFound(rs) ==
    Reply(Err(NOT_FOUND, "Plan not found or unauthorized"), {"Plan.get_by_id"}, rs)

PlanBody(keys, title, event_date, guest_count) ==
    [keys |-> keys, title |-> title, event_date |-> event_date,
     guest_count |-> guest_count]

create_plan(hdr, body, F) ==
    LET user == get_current_user(hdr, F)
        r0 == GuardRaised(hdr, F)
    IN IF user = None THEN Unauthorized(hdr, F)
       ELSE IF NoData(body) THEN Reply(Err(ERROR, "No data provided"), {}, r0)
       ELSE IF Falsy(body, "title") \/ Falsy(body, "event_date")
       THEN Reply(Err(ERROR, "Title and event_date are required"), {}, r0)
       ELSE IF fromisoformat(ReplaceZ(body.event_date)) = ValueError
       THEN Reply(Err(ERROR, "Invalid date format. Use ISO format"), {}, r0)
       ELSE LET made == Plan_create(user,
                                    IF Has(body, "guest_count") THEN body.guest_count ELSE 0,
                                    F)
            IN IF made.val = NoRow
               THEN Reply(Err(500, "Failed to create plan"), {"Plan.create"},
                          r0 \cup made.raised)
               ELSE Outcome(Ok(201, "Plan created successfully"), {"Plan.create"},
                            r0 \cup made.raised, made.plans, guests, phones, tasks)

get_plans(hdr, F) ==
    LET user == get_current_user(hdr, F)
        r0 == GuardRaised(hdr, F)
    IN IF user = None THEN Unauthorized(hdr, F)
       ELSE Reply(Ok(SUCCESS, ""), {"Plan.get_user_plans"},
                  r0 \cup Plan_get_user_plans(user, F).raised)

get_plan(hdr, plan_id, F) ==
    LET user == get_current_user(hdr, F)
        r0 == GuardRaised(hdr, F)
        plan == Plan_get_by_id(plan_id, F)
    IN IF user = None THEN Unauthorized(hdr, F)
       ELSE IF plan.val = NoRow
       THEN Reply(Err(NOT_FOUND, "Plan not found"), {"Plan.get_by_id"}, r0 \cup plan.raised)
       ELSE IF plan.val.user_id # user
       THEN Reply(Err(403, "Unauthorized to view this plan"), {"Plan.get_by_id"}, r0)
       ELSE Reply(Ok(SUCCESS, ""), {"Plan.get_by_id", "Guest.get_plan_guests"},
                  r0 \cup Guest_get_plan_guests(plan_id, F).raised)

\* "Check if plan exists and belongs to user": the step every handler below
\* starts with after the guard
\* a check that any stored plan passes, whoever owns it
Owned_exists(plan, user) == plan.val # NoRow

Owned(plan, user) == plan.val # NoRow /\ plan.val.user_id = user

update_plan(hdr, plan_id, body, F) ==
    LET user == get_current_user(hdr, F)
        r0 == GuardRaised(hdr, F)
        plan == Plan_get_by_id(plan_id, F)
    IN IF user = None THEN Unauthorized(hdr, F)
       ELSE IF ~Owned(plan, user) THEN PlanNotFound(r0 \cup plan.raised)
       ELSE IF NoData(body)
       THEN Reply(Err(ERROR, "No update data provided"), {"Plan.get_by_id"}, r0)
       ELSE LET updated == Plan_update(plans, plan_id, body, F)
                c == {"Plan.get_by_id", "Plan.update"}
            IN IF updated.val = NoRow
               THEN Reply(Err(500, "Failed to update plan"), c, r0 \cup updated.raised)
               ELSE Outcome(Ok(SUCCESS, "Plan updated successfully"), c, r0,
                            updated.plans, guests, phones, tasks)

delete_plan(hdr, plan_id, F) ==
    LET user == get_current_user(hdr, F)
        r0 == GuardRaised(hdr, F)
        plan == Plan_get_by_id(plan_id, F)
    IN IF user = None THEN Unauthorized(hdr, F)
       ELSE IF ~Owned(plan, user) THEN PlanNotFound(r0 \cup plan.raised)
       ELSE LET del == Plan_delete(plan_id, F)
                c == {"Plan.get_by_id", "Plan.delete"}
            IN IF ~del.val
               THEN Reply(Err(500, "Failed to delete plan"), c, r0 \cup del.raised)
               ELSE Outcome(Ok(SUCCESS, "Plan deleted successfully"), c, r0,
                            del.plans, del.guests, del.phones, del.tasks)

GuestBody(keys, name, rsvp_status, phone, phone_numbers) ==
    [keys |-> keys, name |-> name, rsvp_status |-> rsvp_status, phone |-> phone,
     phone_numbers |-> phone_numbers]

\* phone_numbers = data.get('phone_numbers', []), or the legacy phone as a
\* one-entry list when there is a phone and no phone_numbers
PhoneList(body) ==
    LET given == IF Has(body, "phone_numbers") THEN body.phone_numbers ELSE <<>>
    IN IF ~Falsy(body, "phone") /\ given = <<>>
       THEN <<PhoneEntry({"number", "type", "is_primary"}, body.phone, "mobile", TRUE)>>
       ELSE given

add_guest(hdr, plan_id, body, F) ==
    LET user == get_current_user(hdr, F)
        r0 == GuardRaised(hdr, F)
        plan == Plan_get_by_id(plan_id, F)
    IN IF user = None THEN Unauthorized(hdr, F)
       ELSE IF ~Owned(plan, user) THEN PlanNotFound(r0 \cup plan.raised)
       ELSE IF NoData(body)
       THEN Reply(Err(ERROR, "No guest data provided"), {"Plan.get_by_id"}, r0)
       ELSE IF Falsy(body, "name")
       THEN Reply(Err(ERROR, "Guest name is required"), {"Plan.get_by_id"}, r0)
       ELSE IF \E i \in 1..Len(PhoneList(body)) : Falsy(PhoneList(body)[i], "number")
       THEN Reply(Err(ERROR, "Phone number is required in phone_numbers"),
                  {"Plan.get_by_id"}, r0)
       ELSE LET guest == Guest_create(plan_id,
                             IF Has(body, "rsvp_status") THEN body.rsvp_status
                             ELSE "pending",
                             PhoneList(body), F)
            IN IF guest.val = NoRow
               THEN Outcome(Err(500, "Failed to add guest"),
                            {"Plan.get_by_id", "Guest.create"}, r0 \cup guest.raised,
                            plans, guest.guests, guest.phones, tasks)
               ELSE LET counted == Plan_update(plans, plan_id,
                                       OnlyCount(plan.val.guest_count + 1), F)
                    IN Outcome(WithGuest(Ok(201, "Guest added successfully"),
                                         GuestJson(guest.val, guest.phones,
                                                   guest.phone_numbers)),
                               {"Plan.get_by_id", "Guest.create", "Plan.update"},
                               r0 \cup guest.raised \cup counted.raised,
                               counted.plans, guest.guests, guest.phones, tasks)

\* rsvp_stats: one counter per status, raised for each fetched guest whose
\* status is one of the four keys
RsvpStats(fetched) ==
    [st \in RSVP_OPTIONS |-> Cardinality({j \in fetched : j.row.rsvp_status = st})]

\* 'count': len(guests), 'rsvp_stats': rsvp_stats
WithListing(r, fetched) ==
    [r EXCEPT !.listing = [count |-> Cardinality(fetched),
                           rsvp_stats |-> RsvpStats(fetched)]]

get_guests(hdr, plan_id, F) ==
    LET user == get_current_user(hdr, F)
        r0 == GuardRaised(hdr, F)
        plan == Plan_get_by_id(plan_id, F)
    IN IF user = None THEN Unauthorized(hdr, F)
       ELSE IF ~Owned(plan, user) THEN PlanNotFound(r0 \cup plan.raised)
       ELSE LET fetched == Guest_get_plan_guests(plan_id, F)
            IN Reply(WithListing(Ok(SUCCESS, ""), fetched.val),
                     {"Plan.get_by_id", "Guest.get_plan_guests"}, r0 \cup fetched.raised)

get_guest(hdr, plan_id, guest_id, F) ==
    LET user == get_current_user(hdr, F)
        r0 == GuardRaised(hdr, F)
        plan == Plan_get_by_id(plan_id, F)
        guest == Guest_get_by_id(guests, phones, guest_id, F)
        c == {"Plan.get_by_id", "Guest.get_by_id"}
    IN IF user = None THEN Unauthorized(hdr, F)
       ELSE IF ~Owned(plan, user) THEN PlanNotFound(r0 \cup plan.raised)
       ELSE IF guest.val = NoRow
       THEN Reply(Err(NOT_FOUND, "Guest not found"), c, r0 \cup guest.raised)
       ELSE IF guest.val.plan_id # plan_id
       THEN Reply(Err(ERROR, "Guest does not belong to this plan"), c, r0)
       ELSE Reply(WithGuest(Ok(SUCCESS, ""),
                            GuestJson(guest.val, phones, guest.phone_numbers)), c, r0)

\* the tail shared by update_guest, update_guest_rsvp and send_invitation:
\* `if not guest: 500`, else the updated guest
GuestUpdated(upd, c, r0, error, message) ==
    IF upd.val = NoRow
    THEN Outcome(Err(500, error), c, r0 \cup upd.raised, plans, upd.guests, phones, tasks)
    ELSE Outcome(WithGuest(Ok(SUCCESS, message),
                           GuestJson(upd.val, phones, upd.phone_numbers)),
                 c, r0, plans, upd.guests, phones, tasks)

update_guest(hdr, plan_id, guest_id, body, F) ==
    LET user == get_current_user(hdr, F)
        r0 == GuardRaised(hdr, F)
        plan == Plan_get_by_id(plan_id, F)
    IN IF user = None THEN Unauthorized(hdr, F)
       ELSE IF ~Owned(plan, user) THEN PlanNotFound(r0 \cup plan.raised)
       ELSE IF NoData(body)
       THEN Reply(Err(ERROR, "No update data provided"), {"Plan.get_by_id"}, r0)
       ELSE GuestUpdated(Guest_update(guest_id, body, F),
                         {"Plan.get_by_id", "Guest.update"}, r0,
                         "Failed to update guest", "Guest updated successfully")

delete_guest(hdr, plan_id, guest_id, F) ==
    LET user == get_current_user(hdr, F)
        r0 == GuardRaised(hdr, F)
        plan == Plan_get_by_id(plan_id, F)
    IN IF user = None THEN Unauthorized(hdr, F)
       ELSE IF ~Owned(plan, user) THEN PlanNotFound(r0 \cup plan.raised)
       ELSE LET del == Guest_delete(guest_id, F)
            IN IF ~del.val
               THEN Reply(Err(500, "Failed to delete guest"),
                          {"Plan.get_by_id", "Guest.delete"}, r0 \cup del.raised)
               ELSE LET n == plan.val.guest_count - 1
                        counted == Plan_update(plans, plan_id,
                                       OnlyCount(IF n > 0 THEN n ELSE 0), F)
                    IN Outcome(Ok(SUCCESS, "Guest deleted successfully"),
                               {"Plan.get_by_id", "Guest.delete", "Plan.update"},
                               r0 \cup counted.raised,
                               counted.plans, del.guests, del.phones, tasks)

RsvpBody(keys, rsvp_status) == [keys |-> keys, rsvp_status |-> rsvp_status]

update_guest_rsvp(hdr, plan_id, guest_id, body, F) ==
    LET user == get_current_user(hdr, F)
        r0 == GuardRaised(hdr, F)
        plan == Plan_get_by_id(plan_id, F)
    IN IF user = None THEN Unauthorized(hdr, F)
       ELSE IF ~Owned(plan, user) THEN PlanNotFound(r0 \cup plan.raised)
       \* data = request.json; data.get(...): no `if not data` here, so a
       \* JSON null body raises AttributeError out of the handler
       ELSE IF body = Null THEN Crash({"Plan.get_by_id"}, r0)
       ELSE IF Falsy(body, "rsvp_status") \/ body.rsvp_status \notin RSVP_OPTIONS
       THEN Reply(Err(ERROR, "Valid RSVP status required"), {"Plan.get_by_id"}, r0)
       ELSE GuestUpdated(Guest_update_rsvp(guest_id, body.rsvp_status, F),
                         {"Plan.get_by_id", "Guest.update_rsvp"}, r0,
                         "Failed to update RSVP", "RSVP updated")

send_invitation(hdr, plan_id, guest_id, F) ==
    LET user == get_current_user(hdr, F)
        r0 == GuardRaised(hdr, F)
        plan == Plan_get_by_id(plan_id, F)
    IN IF user = None THEN Unauthorized(hdr, F)
       ELSE IF ~Owned(plan, user) THEN PlanNotFound(r0 \cup plan.raised)
       ELSE GuestUpdated(Guest_mark_invitation_sent(guest_id, F),
                         {"Plan.get_by_id", "Guest.mark_invitation_sent"}, r0,
                         "Failed to mark invitation", "Invitation marked as sent")

PhoneBody(keys, phone_number) == [keys |-> keys, phone_number |-> phone_number]

add_guest_phone(hdr, plan_id, guest_id, body, F) ==
    LET user == get_current_user(hdr, F)
        r0 == GuardRaised(hdr, F)
        plan == Plan_get_by_id(plan_id, F)
    IN IF user = None THEN Unauthorized(hdr, F)
       ELSE IF ~Owned(plan, user) THEN PlanNotFound(r0 \cup plan.raised)
       ELSE IF NoData(body) \/ Falsy(body, "phone_number")
       THEN Reply(Err(ERROR, "Phone number is required"), {"Plan.get_by_id"}, r0)
       ELSE LET added == Guest_add_phone_numbers(guests, phones, guest_id,
                             <<PhoneEntry({"number", "type", "is_primary"},
                                          body.phone_number, "mobile", FALSE)>>, F)
                c == {"Plan.get_by_id", "Guest.add_phone_numbers"}
            IN IF added.val = {}
               THEN Reply(Err(500, "Failed to add phone number"), c, r0 \cup added.raised)
               ELSE Outcome(Ok(201, "Phone number added successfully"), c, r0,
                            plans, guests, added.phones, tasks)

TaskBody(keys, title, due_date) == [keys |-> keys, title |-> title, due_date |-> due_date]

create_task_eager(hdr, plan_id, body, F) ==
    LET user == get_current_user(hdr, F)
        r0 == GuardRaised(hdr, F)
        plan == Plan_get_by_id(plan_id, F)
    IN IF user = None THEN Unauthorized(hdr, F)
       ELSE IF ~Owned(plan, user) THEN PlanNotFound(r0 \cup plan.raised)
       ELSE IF NoData(body)
       THEN Reply(Err(ERROR, "No task data provided"), {"Plan.get_by_id"}, r0)
       ELSE LET task == EventTask_create_task(plan_id, body.title, F)
                c == {"Plan.get_by_id", "EventTask.create_task"}
            IN IF Falsy(body, "title")
               THEN Outcome(Err(ERROR, "Task title is required"), c, r0,
                            plans, guests, phones, task.tasks)
               ELSE IF ~Falsy(body, "due_date")
                       /\ fromisoformat(ReplaceZ(body.due_date)) = ValueError
               THEN Outcome(Err(ERROR, "Invalid due_date format"), c, r0,
                            plans, guests, phones, task.tasks)
               ELSE IF task.val = NoRow
               THEN Reply(Err(500, "Failed to create task"), c, r0 \cup task.raised)
               ELSE Outcome(Ok(201, "Task created successfully"), c, r0,
                            plans, guests, phones, task.tasks)

create_task(hdr, plan_id, body, F) ==
    LET user == get_current_user(hdr, F)
        r0 == GuardRaised(hdr, F)
        plan == Plan_get_by_id(plan_id, F)
    IN IF user = None THEN Unauthorized(hdr, F)
       ELSE IF ~Owned(plan, user) THEN PlanNotFound(r0 \cup plan.raised)
       ELSE IF NoData(body)
       THEN Reply(Err(ERROR, "No task data provided"), {"Plan.get_by_id"}, r0)
       ELSE IF Falsy(body, "title")
       THEN Reply(Err(ERROR, "Task title is required"), {"Plan.get_by_id"}, r0)
       ELSE IF ~Falsy(body, "due_date") /\ fromisoformat(ReplaceZ(body.due_date)) = ValueError
       THEN Reply(Err(ERROR, "Invalid due_date format"), {"Plan.get_by_id"}, r0)
       ELSE LET task == EventTask_create_task(plan_id, body.title, F)
                c == {"Plan.get_by_id", "EventTask.create_task"}
            IN IF task.val = NoRow
               THEN Reply(Err(500, "Failed to create task"), c, r0 \cup task.raised)
               ELSE Outcome(Ok(201, "Task created successfully"), c, r0,
                            plans, guests, phones, task.tasks)

get_stats(hdr, F) ==
    LET user == get_current_user(hdr, F)
        r0 == GuardRaised(hdr, F)
    IN IF user = None THEN Unauthorized(hdr, F)
       ELSE Reply(Ok(SUCCESS, ""), {"Plan.get_user_plans"},
                  r0 \cup Plan_get_user_plans(user, F).raised)

---------------------------------------------------------------------------
(* routes/auth.py.  The handlers use the module global `supabase`; its     *)
(* auth client keeps the session of whoever signed in last.  Each gives    *)
(* the response, the client's session and the service's live tokens after, *)
(* and the auth-service methods it called.                                 *)

AuthOutcome(r, s, v) == [resp |-> r, session |-> s, valid |-> v, calls |-> {}]
Called(method, out) == [out EXCEPT !.calls = {method}]

Credentials(keys, email, password) ==
    [keys |-> keys, email |-> email, password |-> password]

\* the one password the service accepts for every account
GoodPassword == "Secret123"

signup(body, failed) ==
    IF body = Null
    THEN AuthOutcome(Err(400, "'NoneType' object has no attribute 'get'"), session, valid)
    ELSE IF Falsy(body, "email") \/ Falsy(body, "password")
    THEN AuthOutcome(Err(ERROR, "Email and password are required"), session, valid)
    ELSE IF supabase = None
    THEN AuthOutcome(Err(SERVICE_NOT_AVAILABLE, "Backend service unavailable"),
                     session, valid)
    \* sign_up drops the client's session before asking the service; every
    \* account exists already, so no new session comes back
    ELSE IF failed
    THEN Called("auth.sign_up", AuthOutcome(Err(ERROR, "sign_up raised"), None, valid))
    ELSE Called("auth.sign_up",
                AuthOutcome(Response(SUCCESS, "", "User processed successfully",
                                     body.email, None), None, valid))

\* a login that asks the service before looking at the fields
login_unchecked(body, failed) ==
    IF body = Null
    THEN AuthOutcome(Err(ERROR, "No data provided or invalid JSON"), session, valid)
    ELSE IF supabase = None
    THEN AuthOutcome(Err(SERVICE_NOT_AVAILABLE, "Backend service unavailable"),
                     session, valid)
    ELSE IF failed \/ Falsy(body, "email") \/ body.password # GoodPassword
    THEN Called("auth.sign_in_with_password",
                AuthOutcome(Err(ERROR, "sign_in_with_password raised"), None, valid))
    ELSE Called("auth.sign_in_with_password",
                AuthOutcome(Response(SUCCESS, "", "Login successful", body.email,
                                     TokenOf(body.email)),
                            body.email, valid \cup {TokenOf(body.email)}))

login(body, failed) ==
    IF body = Null
    THEN AuthOutcome(Err(ERROR, "No data provided or invalid JSON"), session, valid)
    ELSE IF Falsy(body, "email") \/ Falsy(body, "password")
    THEN AuthOutcome(Err(ERROR, "Email and password are required"), session, valid)
    ELSE IF supabase = None
    THEN AuthOutcome(Err(SERVICE_NOT_AVAILABLE, "Backend service unavailable"),
                     session, valid)
    \* sign_in_with_password drops the client's session, then keeps the new one
    ELSE IF failed \/ body.password # GoodPassword
    THEN Called("auth.sign_in_with_password",
                AuthOutcome(Err(ERROR, "sign_in_with_password raised"), None, valid))
    ELSE Called("auth.sign_in_with_password",
                AuthOutcome(Response(SUCCESS, "", "Login successful", body.email,
                                     TokenOf(body.email)),
                            body.email, valid \cup {TokenOf(body.email)}))

\* sign_out(): ends the client's own session at the service and forgets it
logout(failed) ==
    IF supabase = None
    THEN AuthOutcome(Err(ERROR, "'NoneType' object has no attribute 'auth'"),
                     session, valid)
    ELSE IF failed
    THEN Called("auth.sign_out",
                AuthOutcome(Err(ERROR, "sign_out raised"), session, valid))
    ELSE Called("auth.sign_out",
                AuthOutcome(Ok(SUCCESS, "Logged out successfully"), None,
                            IF session = None THEN valid
                            ELSE valid \ {TokenOf(session)}))

\* supabase.auth.get_user().user: no jwt is passed, so the client's own
\* session decides; with no session get_user() is None and .user raises
get_user(failed) ==
    IF supabase = None
    THEN AuthOutcome(Err(ERROR, "'NoneType' object has no attribute 'auth'"),
                     session, valid)
    ELSE IF failed
    THEN Called("auth.get_user",
                AuthOutcome(Err(ERROR, "get_user raised"), session, valid))
    ELSE IF AuthGetUser(None) = None
    THEN Called("auth.get_user",
                AuthOutcome(Err(ERROR, "'NoneType' object has no attribute 'user'"),
                            session, valid))
    ELSE Called("auth.get_user",
                AuthOutcome(Response(SUCCESS, "", "", AuthGetUser(None), None),
                            session, valid))

---------------------------------------------------------------------------
(* The requests the clients send *)

ZDate == "2026-06-01T10:00:00Z"

PlanBodies ==
    {Null, PlanBody({}, "", "", 0),
     PlanBody({"title", "event_date"}, "Wedding", ZDate, 0),
     PlanBody({"title", "event_date", "guest_count"}, "Wedding", ZDate, 2),
     PlanBody({"title"}, "Wedding", "", 0),
     PlanBody({"event_date"}, "", ZDate, 0),
     PlanBody({"title", "event_date"}, "Wedding", "June 1st", 0)}

PlanUpdateBodies ==
    {Null, PlanUpdates({}, "", 0, ""),
     PlanUpdates({"title"}, "Party", 0, ""),
     PlanUpdates({"guest_count"}, "", 2, ""),
     PlanUpdates({"user_id"}, "", 0, "uB")}

\* bodies without phones
GuestBodies ==
    {Null, GuestBody({"name"}, "Bob", "", "", <<>>),
     GuestBody({"rsvp_status"}, "", "confirmed", "", <<>>)}

\* guests sent with phones: the legacy phone, one entry, two entries, an
\* entry without number
Mobile(number) == PhoneEntry({"number"}, number, "", FALSE)
GuestPhoneBodies ==
    {GuestBody({"name"}, "Bob", "", "", <<>>),
     GuestBody({"name", "phone"}, "Bob", "", "+1555", <<>>),
     GuestBody({"name", "phone_numbers"}, "Bob", "", "", <<Mobile("+1555")>>),
     GuestBody({"name", "phone_numbers"}, "Bob", "", "",
               <<Mobile("+1555"), Mobile("+1777")>>),
     GuestBody({"name", "phone_numbers"}, "Bob", "", "",
               <<Mobile("+1555"), PhoneEntry({"type"}, "", "home", FALSE)>>)}

RsvpBodies ==
    {Null, RsvpBody({}, ""), RsvpBody({"rsvp_status"}, "confirmed"),
     RsvpBody({"rsvp_status"}, "attending")}

GuestUpdateBodies ==
    {Null, GuestUpdates({}, "", "", FALSE),
     GuestUpdates({"rsvp_status"}, "confirmed", "", FALSE),
     GuestUpdates({"rsvp_status"}, "attending", "", FALSE),
     GuestUpdates({"plan_id"}, "", "p2", FALSE)}

PhoneBodies == {Null, PhoneBody({}, ""), PhoneBody({"phone_number"}, "+1555")}

TaskBodies ==
    {Null, TaskBody({"title"}, "Book venue", ""), TaskBody({"due_date"}, "", ZDate),
     TaskBody({"title", "due_date"}, "Book venue", "tomorrow")}

\* the routes under /<plan_id> and the bodies sent to each
PlanScoped ==
    {"get_plan", "update_plan", "delete_plan", "add_guest", "get_guests", "get_guest",
     "update_guest", "delete_guest", "update_guest_rsvp", "send_invitation",
     "add_guest_phone", "create_task"}

BodiesOf(ep) ==
    CASE ep = "update_plan" -> PlanUpdateBodies
      [] ep = "add_guest" -> GuestBodies
      [] ep = "update_guest" -> GuestUpdateBodies
      [] ep = "update_guest_rsvp" -> RsvpBodies
      [] ep = "add_guest_phone" -> PhoneBodies
      [] ep = "create_task" -> TaskBodies
      [] OTHER -> {Null}

\* the blueprint's routing of a plan-scoped request to its handler
Dispatch(ep, hdr, p, g, body, F) ==
    CASE ep = "get_plan" -> get_plan(hdr, p, F)
      [] ep = "update_plan" -> update_plan(hdr, p, body, F)
      [] ep = "delete_plan" -> delete_plan(hdr, p, F)
      [] ep = "add_guest" -> add_guest(hdr, p, body, F)
      [] ep = "get_guests" -> get_guests(hdr, p, F)
      [] ep = "get_guest" -> get_guest(hdr, p, g, F)
      [] ep = "update_guest" -> update_guest(hdr, p, g, body, F)
      [] ep = "delete_guest" -> delete_guest(hdr, p, g, F)
      [] ep = "update_guest_rsvp" -> update_guest_rsvp(hdr, p, g, body, F)
      [] ep = "send_invitation" -> send_invitation(hdr, p, g, F)
      [] ep = "add_guest_phone" -> add_guest_phone(hdr, p, g, body, F)
      [] ep = "create_task" -> create_task(hdr, p, body, F)

CredentialBodies ==
    {Null, Credentials({"email"}, "uA", ""), Credentials({"password"}, "", GoodPassword),
     Credentials({"email", "password"}, "uA", "wrong")}
    \cup {Credentials({"email", "password"}, u, GoodPassword) : u \in Users}

----------------------------------------------------------------------

---------------------------------------------------------------------------
(* The state machine.  req, resp, calls, faults and before remember the    *)
(* last exchange until Close.  While it is remembered only a follow-up of  *)
(* it is handled (the same request again, a delete_guest after an          *)
(* add_guest on the plan, a get_user after a login or logout); any other   *)
(* request is handled after Close.                                         *)

NoSnapshot == [idle |-> TRUE]
\* the store and the time a request found, and the exchange it followed
\* directly
Snapshot ==
    [plans |-> plans, guests |-> guests, phones |-> phones, tasks |-> tasks,
     at |-> now, req |-> req, status |-> resp.status, guest |-> resp.guest]

\* no accessor method called yet
NoReturn == [method |-> None, arg |-> None, kind |-> None, val |-> None, raised |-> {}]

\* app.routes.auth has been imported: its get_supabase() call either built
\* the client or raised ValueError, and no request thread has started
NoFrame == [at |-> "idle", op |-> None, plan_id |-> None, plan |-> NoRow,
            guest |-> None, status |-> 0]
Resting ==
    /\ frame = [t \in Threads |-> NoFrame]
    /\ served = [adds |-> 0, deletes |-> 0]

Imported ==
    /\ Resting
    /\ env = (supabase = "client")
    /\ instance = supabase
    /\ built = (IF supabase = "client" THEN 1 ELSE 0)
    /\ pc = [t \in Threads |-> IF t = "main" THEN "done" ELSE "idle"]
    /\ handed = [t \in Threads |-> IF t = "main" THEN supabase ELSE None]

Init ==
    /\ supabase \in {"client", None}
    /\ session = None
    /\ valid = {}
    /\ plans = [p \in PlanIds |-> NoRow]
    /\ guests = [g \in GuestIds |-> NoRow]
    /\ phones = [f \in PhoneIds |-> NoRow]
    /\ tasks = [k \in TaskIds |-> NoRow]
    /\ now = 0
    /\ req = NoRequest
    /\ resp = NoResponse
    /\ calls = {}
    /\ faults = {}
    /\ before = NoSnapshot
    /\ returned = NoReturn
    /\ Imported

\* the updates a client sends twice in a row
Repeatable == {"update_plan", "update_guest"}

FollowUp(r) ==
    \/ r = req /\ r.ep \in Repeatable
    \/ req.ep = "add_guest" /\ r.ep = "delete_guest" /\ r.hdr = req.hdr /\ r.plan = req.plan
    \/ req.ep \in {"login", "logout"} /\ r.ep = "get_user"

Arrives(r) == req = NoRequest \/ FollowUp(r)

\* the endpoints a request can arrive at, once the routes are imported
Open(ep) ==
    /\ pc["main"] = "done"
    /\ \/ req = NoRequest
       \/ req.ep = ep /\ ep \in Repeatable
       \/ req.ep = "add_guest" /\ ep = "delete_guest"
       \/ req.ep \in {"login", "logout"} /\ ep = "get_user"

\* a plans.py handler has run
Handled(r, out) ==
    \E o \in {out} :
        /\ plans' = o.plans
        /\ guests' = o.guests
        /\ phones' = o.phones
        /\ tasks' = o.tasks
        /\ req' = r
        /\ resp' = o.resp
        /\ calls' = o.calls
        /\ faults' = o.raised
        /\ before' = Snapshot
        /\ UNCHANGED <<supabase, session, valid, now, returned, gateway, workers>>

\* an auth.py handler has run
AuthHandled(r, out, failed) ==
    \E o \in {out} :
        /\ session' = o.session
        /\ valid' = o.valid
        /\ req' = r
        /\ resp' = o.resp
        /\ calls' = o.calls
        /\ faults' = IF failed THEN {"auth"} ELSE {}
        /\ before' = Snapshot
        /\ UNCHANGED <<supabase, plans, guests, phones, tasks, now, returned, gateway, workers>>

Signup ==
    /\ Open("signup")
    /\ \E hdr \in {NoHeader}, body \in CredentialBodies, failed \in BOOLEAN :
           LET r == Request("signup", hdr, None, None, body)
           IN Arrives(r) /\ AuthHandled(r, signup(body, failed), failed)

Login ==
    /\ Open("login")
    /\ \E hdr \in {NoHeader}, body \in CredentialBodies, failed \in BOOLEAN :
           LET r == Request("login", hdr, None, None, body)
           IN Arrives(r) /\ AuthHandled(r, login(body, failed), failed)

Logout ==
    /\ Open("logout")
    /\ \E hdr \in Headers, failed \in BOOLEAN :
           LET r == Request("logout", hdr, None, None, Null)
           IN Arrives(r) /\ AuthHandled(r, logout(failed), failed)

GetUser ==
    /\ Open("get_user")
    /\ \E hdr \in Headers, failed \in BOOLEAN :
           LET r == Request("get_user", hdr, None, None, Null)
           IN Arrives(r) /\ AuthHandled(r, get_user(failed), failed)

CreatePlan ==
    /\ Open("create_plan")
    /\ \E hdr \in Headers, body \in PlanBodies,
          F \in Faults({"auth.get_user", "plans.insert"}) :
           LET r == Request("create_plan", hdr, None, None, body)
           IN /\ Arrives(r)
              /\ FreeIds(plans) # {}
              /\ Handled(r, create_plan(hdr, body, F))

GetPlan ==
    /\ Open("get_plan")
    /\ \E hdr \in Headers, p \in PlanIds, F \in Faults({"plans.select", "guests.select"}) :
           LET r == Request("get_plan", hdr, p, None, Null)
           IN Arrives(r) /\ Handled(r, get_plan(hdr, p, F))

UpdatePlan ==
    /\ Open("update_plan")
    /\ \E hdr \in Headers, p \in PlanIds, body \in PlanUpdateBodies,
          F \in Faults({"plans.select", "plans.update"}) :
           LET r == Request("update_plan", hdr, p, None, body)
           IN Arrives(r) /\ Handled(r, update_plan(hdr, p, body, F))

DeletePlan ==
    /\ Open("delete_plan")
    /\ \E hdr \in Headers, p \in PlanIds, F \in Faults({"plans.select", "plans.delete"}) :
           LET r == Request("delete_plan", hdr, p, None, Null)
           IN Arrives(r) /\ Handled(r, delete_plan(hdr, p, F))

AddGuest ==
    /\ Open("add_guest")
    /\ \E hdr \in Callers, p \in PlanIds, body \in GuestBodies,
          F \in Faults({"plans.select", "guests.insert", "guests.select", "plans.update"}) :
           LET r == Request("add_guest", hdr, p, None, body)
           IN /\ Arrives(r)
              /\ FreeIds(guests) # {}
              /\ body # Null => Cardinality(FreeIds(phones)) >= Len(PhoneList(body))
              /\ plans[p] # NoRow => plans[p].guest_count < MaxCount
              /\ Handled(r, add_guest(hdr, p, body, F))

\* add_guest again, its request carrying phones
AddGuestPhones ==
    /\ Open("add_guest")
    /\ \E hdr \in {Bearer("tA")}, p \in {"p1"}, body \in GuestPhoneBodies,
          F \in Faults({"guest_phones.insert", "guest_phones.select", "plans.update"}) :
           LET r == Request("add_guest", hdr, p, None, body)
           IN /\ Arrives(r)
              /\ FreeIds(guests) # {}
              /\ Cardinality(FreeIds(phones)) >= Len(PhoneList(body))
              /\ plans[p] # NoRow => plans[p].guest_count < MaxCount
              /\ Handled(r, add_guest(hdr, p, body, F))

DeleteGuest ==
    /\ Open("delete_guest")
    /\ \E hdr \in Callers, p \in PlanIds, g \in GuestIds,
          F \in Faults({"plans.select", "guests.delete", "plans.update"}) :
           LET r == Request("delete_guest", hdr, p, g, Null)
           IN Arrives(r) /\ Handled(r, delete_guest(hdr, p, g, F))

UpdateGuestRsvp ==
    /\ Open("update_guest_rsvp")
    /\ \E hdr \in Callers, p \in PlanIds, g \in GuestIds, body \in RsvpBodies,
          F \in Faults({"plans.select", "guests.update", "guests.select"}) :
           LET r == Request("update_guest_rsvp", hdr, p, g, body)
           IN Arrives(r) /\ Handled(r, update_guest_rsvp(hdr, p, g, body, F))

CreateTask ==
    /\ Open("create_task")
    /\ \E hdr \in Callers, p \in PlanIds, body \in TaskBodies,
          F \in Faults({"auth.get_user", "plans.select", "event_tasks.insert"}) :
           LET r == Request("create_task", hdr, p, None, body)
           IN /\ Arrives(r)
              /\ FreeIds(tasks) # {}
              /\ Handled(r, create_task(hdr, p, body, F))

GetPlans ==
    /\ Open("get_plans")
    /\ \E hdr \in Callers, F \in Faults({"auth.get_user", "plans.select"}) :
           LET r == Request("get_plans", hdr, None, None, Null)
           IN Arrives(r) /\ Handled(r, get_plans(hdr, F))

GetStats ==
    /\ Open("get_stats")
    /\ \E hdr \in Callers, F \in Faults({"auth.get_user", "plans.select"}) :
           LET r == Request("get_stats", hdr, None, None, Null)
           IN Arrives(r) /\ Handled(r, get_stats(hdr, F))

GetGuests ==
    /\ Open("get_guests")
    /\ \E hdr \in Callers, p \in PlanIds,
          F \in Faults({"plans.select", "guests.select", "guest_phones.select"}) :
           LET r == Request("get_guests", hdr, p, None, Null)
           IN Arrives(r) /\ Handled(r, get_guests(hdr, p, F))

GetGuest ==
    /\ Open("get_guest")
    /\ \E hdr \in Callers, p \in PlanIds, g \in GuestIds,
          F \in Faults({"plans.select", "guests.select"}) :
           LET r == Request("get_guest", hdr, p, g, Null)
           IN Arrives(r) /\ Handled(r, get_guest(hdr, p, g, F))

UpdateGuest ==
    /\ Open("update_guest")
    /\ \E hdr \in Callers, p \in PlanIds, g \in GuestIds, body \in GuestUpdateBodies,
          F \in Faults({"plans.select", "guests.update", "guests.select"}) :
           LET r == Request("update_guest", hdr, p, g, body)
           IN Arrives(r) /\ Handled(r, update_guest(hdr, p, g, body, F))

AddGuestPhone ==
    /\ Open("add_guest_phone")
    /\ \E hdr \in Callers, p \in PlanIds, g \in GuestIds, body \in PhoneBodies,
          F \in Faults({"plans.select", "guest_phones.insert"}) :
           LET r == Request("add_guest_phone", hdr, p, g, body)
           IN /\ Arrives(r)
              /\ FreeIds(phones) # {}
              /\ Handled(r, add_guest_phone(hdr, p, g, body, F))

SendInvitation ==
    /\ Open("send_invitation")
    /\ \E hdr \in Callers, p \in PlanIds, g \in GuestIds,
          F \in Faults({"plans.select", "guests.update", "guests.select"}) :
           LET r == Request("send_invitation", hdr, p, g, Null)
           IN Arrives(r) /\ Handled(r, send_invitation(hdr, p, g, F))

\* time passes: between exchanges, or before an update is sent again
Tick ==
    /\ req = NoRequest \/ req.ep \in Repeatable
    /\ now < MaxClock
    /\ now' = now + 1
    /\ UNCHANGED <<supabase, session, valid, plans, guests, phones, tasks,
                   req, resp, calls, faults, before, returned, gateway, workers>>

\* the exchange is over and no longer remembered
Close ==
    /\ req # NoRequest
    /\ req' = NoRequest
    /\ resp' = NoResponse
    /\ calls' = {}
    /\ faults' = {}
    /\ before' = NoSnapshot
    /\ UNCHANGED <<supabase, session, valid, plans, guests, phones, tasks, now,
                   returned, gateway, workers>>

\* SupabaseClient.get_client, one step per line a thread of the process can
\* be stopped at.  main calls it while app.routes.auth is imported; t1 and
\* t2 call it from handlers, which run once the import is over.
Clients == <<"client", "client2", "client3">>
Left == <<supabase, session, valid, store, now, hist, returned, workers>>

\* a thread calls get_client
EnterGetClient ==
    \E t \in Threads :
        /\ pc[t] = "idle" \/ (t # "main" /\ pc[t] = "done")
        /\ t # "main" => pc["main"] = "done"
        /\ pc' = [pc EXCEPT ![t] = "check"]
        /\ UNCHANGED <<env, instance, built, handed, Left>>

\* line 11: if cls._instance is None
CheckInstance ==
    \E t \in Threads :
        /\ pc[t] = "check"
        /\ pc' = [pc EXCEPT ![t] = IF instance = None THEN "config" ELSE "return"]
        /\ UNCHANGED <<env, instance, built, handed, Left>>

\* lines 12-16: read the URL and the key; ValueError when one is missing.
\* auth.py:67-69 catches it at import and leaves supabase = None.
ReadConfig ==
    \E t \in Threads :
        /\ pc[t] = "config"
        /\ IF env
           THEN /\ pc' = [pc EXCEPT ![t] = "build"]
                /\ UNCHANGED handed
           ELSE /\ pc' = [pc EXCEPT ![t] = "done"]
                /\ handed' = [handed EXCEPT ![t] = "ValueError"]
        /\ UNCHANGED <<env, instance, built, Left>>

\* line 18: cls._instance = create_client(url, key)
BuildClient ==
    \E t \in Threads :
        /\ pc[t] = "build"
        /\ built < Len(Clients)
        /\ instance' = Clients[built + 1]
        /\ built' = built + 1
        /\ pc' = [pc EXCEPT ![t] = "return"]
        /\ UNCHANGED <<env, handed, Left>>

\* line 19: return cls._instance; at import it lands in auth.py's supabase
ReturnInstance ==
    \E t \in Threads :
        /\ pc[t] = "return"
        /\ handed' = [handed EXCEPT ![t] = instance]
        /\ pc' = [pc EXCEPT ![t] = "done"]
        /\ supabase' = (IF t = "main" THEN instance ELSE supabase)
        /\ UNCHANGED <<env, instance, built, session, valid, store, now, hist, returned,
                       workers>>

\* An entity accessor method called on its own.  kind is what the method
\* returns: a single record, a collection, or delete's boolean.
Returns(method, arg, kind, out, pl, gu, ph, ta) ==
    \E o \in {out} :
        /\ returned' = [method |-> method, arg |-> arg, kind |-> kind, val |-> o.val,
                        raised |-> o.raised]
        /\ plans' = pl
        /\ guests' = gu
        /\ phones' = ph
        /\ tasks' = ta
        /\ UNCHANGED <<supabase, session, valid, now, hist, gateway, workers>>

CallPlanCreate ==
    /\ FreeIds(plans) # {}
    /\ \E u \in {"uB"}, F \in Faults({"plans.insert"}) :
           LET o == Plan_create(u, 0, F)
           IN Returns("Plan.create", u, "single", o, o.plans, guests, phones, tasks)

CallPlanGetById ==
    /\ req = NoRequest
    /\ \E p \in PlanIds, F \in Faults({"plans.select"}) :
           Returns("Plan.get_by_id", p, "single", Plan_get_by_id(p, F),
                   plans, guests, phones, tasks)

CallPlanGetUserPlans ==
    /\ req = NoRequest
    /\ \E u \in Users, F \in Faults({"plans.select"}) :
           Returns("Plan.get_user_plans", u, "list", Plan_get_user_plans(u, F),
                   plans, guests, phones, tasks)

CallPlanUpdate ==
    /\ req = NoRequest
    /\ \E p \in PlanIds, n \in {1}, F \in Faults({"plans.update"}) :
           LET o == Plan_update(plans, p, OnlyCount(n), F)
           IN Returns("Plan.update", p, "single", o, o.plans, guests, phones, tasks)

CallPlanDelete ==
    /\ req = NoRequest
    /\ \E p \in PlanIds, F \in Faults({"plans.delete"}) :
           LET o == Plan_delete(p, F)
           IN Returns("Plan.delete", p, "delete", o, o.plans, o.guests, o.phones, o.tasks)

CallGuestCreate ==
    \E p \in PlanIds, list \in {<<>>, <<Mobile("+1555")>>},
       F \in Faults({"guests.insert", "guest_phones.insert", "guests.select",
                     "guest_phones.select"}) :
        /\ plans[p] # NoRow
        /\ FreeIds(guests) # {}
        /\ Cardinality(FreeIds(phones)) >= Len(list)
        /\ LET o == Guest_create(p, "pending", list, F)
           IN Returns("Guest.create", p, "single", o, plans, o.guests, o.phones, tasks)

CallGuestAddPhoneNumbers ==
    \E g \in GuestIds, F \in Faults({"guest_phones.insert"}) :
        /\ FreeIds(phones) # {}
        /\ LET o == Guest_add_phone_numbers(guests, phones, g, <<Mobile("+1555")>>, F)
           IN Returns("Guest.add_phone_numbers", g, "list", o, plans, guests, o.phones, tasks)

CallGuestGetById ==
    /\ req = NoRequest
    /\ \E g \in GuestIds, F \in Faults({"guests.select", "guest_phones.select"}) :
           Returns("Guest.get_by_id", g, "single", Guest_get_by_id(guests, phones, g, F),
                   plans, guests, phones, tasks)

CallGuestGetPlanGuests ==
    /\ req = NoRequest
    /\ \E p \in PlanIds, F \in Faults({"guests.select", "guest_phones.select"}) :
           Returns("Guest.get_plan_guests", p, "list", Guest_get_plan_guests(p, F),
                   plans, guests, phones, tasks)

CallGuestUpdate ==
    /\ req = NoRequest
    /\ \E g \in GuestIds, F \in Faults({"guests.update", "guests.select"}) :
           LET o == Guest_update(g, GuestUpdates({"rsvp_status"}, "confirmed", "", FALSE), F)
           IN Returns("Guest.update", g, "single", o, plans, o.guests, phones, tasks)

CallGuestDelete ==
    /\ req = NoRequest
    /\ \E g \in GuestIds, F \in Faults({"guests.delete"}) :
           LET o == Guest_delete(g, F)
           IN Returns("Guest.delete", g, "delete", o, plans, o.guests, o.phones, tasks)

CallCreateTask ==
    /\ FreeIds(tasks) # {}
    /\ \E p \in PlanIds, F \in Faults({"event_tasks.insert"}) :
           /\ plans[p] # NoRow
           /\ LET o == EventTask_create_task(p, "Book venue", F)
              IN Returns("EventTask.create_task", p, "single", o,
                         plans, guests, phones, o.tasks)

\* plan routes
Next ==
    \/ Login \/ CreatePlan \/ GetPlan \/ UpdatePlan \/ DeletePlan \/ Close

Spec == Init /\ [][Next]_vars

\* plan and guest routes, in a process where nobody has logged in, while
\* both users hold tokens the service resolves
InitLive ==
    /\ supabase \in {"client", None}
    /\ session = None
    /\ valid = Tokens
    /\ plans = [p \in PlanIds |-> NoRow]
    /\ guests = [g \in GuestIds |-> NoRow]
    /\ phones = [f \in PhoneIds |-> NoRow]
    /\ tasks = [k \in TaskIds |-> NoRow]
    /\ now = 0
    /\ req = NoRequest
    /\ resp = NoResponse
    /\ calls = {}
    /\ faults = {}
    /\ before = NoSnapshot
    /\ returned = NoReturn
    /\ Imported

NextGuests ==
    \/ CreatePlan \/ DeletePlan \/ AddGuest \/ DeleteGuest \/ UpdateGuestRsvp \/ Close

SpecGuests == InitLive /\ [][NextGuests]_vars

\* the same process once each user has created a plan
InitPlanned ==
    /\ supabase \in {"client", None}
    /\ session = None
    /\ valid = Tokens
    /\ plans = [p \in PlanIds |->
                  PlanRow(p, IF p = "p1" THEN "uA" ELSE "uB", 0, 0)]
    /\ guests = [g \in GuestIds |-> NoRow]
    /\ phones = [f \in PhoneIds |-> NoRow]
    /\ tasks = [k \in TaskIds |-> NoRow]
    /\ now = 0
    /\ req = NoRequest
    /\ resp = NoResponse
    /\ calls = {}
    /\ faults = {}
    /\ before = NoSnapshot
    /\ returned = NoReturn
    /\ Imported

\* the same process once user uA has created a plan
\* add_guest and delete_guest as the threads of the server run them: one step
\* per gateway round trip, the locals of each invocation in frame.  The
\* requests are the owner's, with a valid token and the body {"name": "Bob"},
\* and every gateway call succeeds.
HandlerThreads == Threads \ {"main"}
Taken == served.adds + served.deletes
         + Cardinality({t \in HandlerThreads : frame[t].at # "idle"})
Adding == {t \in HandlerThreads : frame[t].op = "add_guest" /\ frame[t].at = "read"}
Stepped == <<supabase, session, valid, now, hist, returned, gateway>>

\* plans.py:178-185: the guard and Plan.get_by_id; `plan` is kept as a local
ReadPlan(t, op, plan_id, guest_id) ==
    LET plan == Plan_get_by_id(plan_id, {})
    IN /\ pc["main"] = "done"
       /\ frame[t].at = "idle"
       /\ frame' = [frame EXCEPT ![t] =
                       IF Owned(plan, "uA")
                       THEN [at |-> "read", op |-> op, plan_id |-> plan_id,
                             plan |-> plan.val, guest |-> guest_id, status |-> 0]
                       ELSE [NoFrame EXCEPT !.op = op, !.plan_id = plan_id,
                                            !.status = NOT_FOUND]]
       /\ UNCHANGED <<store, served, Stepped>>

BeginAddGuest ==
    \E t \in HandlerThreads, p \in {"p1"} :
        /\ Taken < MaxServed
        /\ Cardinality(FreeIds(guests)) > Cardinality(Adding)
        /\ ReadPlan(t, "add_guest", p, None)

BeginDeleteGuest ==
    \E t \in HandlerThreads, p \in {"p1"}, g \in GuestIds :
        /\ Taken < MaxServed
        /\ ReadPlan(t, "delete_guest", p, g)

\* plans.py:212-223: Guest.create, 500 when it returns nothing
StoreGuest ==
    \E t \in HandlerThreads :
        /\ frame[t].op = "add_guest" /\ frame[t].at = "read"
        /\ LET guest == Guest_create(frame[t].plan_id, "pending", <<>>, {})
           IN /\ guests' = guest.guests
              /\ phones' = guest.phones
              /\ frame' = [frame EXCEPT ![t] =
                              IF guest.val = NoRow
                              THEN [@ EXCEPT !.at = "idle", !.status = 500]
                              ELSE [@ EXCEPT !.at = "stored", !.guest = guest.val.id]]
        /\ UNCHANGED <<plans, tasks, served, Stepped>>

\* plans.py:225-231: Plan.update with the count read at the start plus one,
\* then 201
CountGuest ==
    \E t \in HandlerThreads :
        /\ frame[t].op = "add_guest" /\ frame[t].at = "stored"
        /\ plans' = Plan_update(plans, frame[t].plan_id,
                                OnlyCount(frame[t].plan.guest_count + 1), {}).plans
        /\ frame' = [frame EXCEPT ![t] = [@ EXCEPT !.at = "idle", !.status = 201]]
        /\ served' = [served EXCEPT !.adds = @ + 1]
        /\ UNCHANGED <<guests, phones, tasks, Stepped>>

\* plans.py:325-328: Guest.delete, 500 when it deleted nothing
RemoveGuest ==
    \E t \in HandlerThreads :
        /\ frame[t].op = "delete_guest" /\ frame[t].at = "read"
        /\ LET del == Guest_delete(frame[t].guest, {})
           IN /\ guests' = del.guests
              /\ phones' = del.phones
              /\ frame' = [frame EXCEPT ![t] =
                              IF del.val THEN [@ EXCEPT !.at = "removed"]
                              ELSE [@ EXCEPT !.at = "idle", !.status = 500]]
        /\ UNCHANGED <<plans, tasks, served, Stepped>>

\* plans.py:330-334: Plan.update with the count read at the start minus one,
\* not below 0, then the success status
UncountGuest ==
    \E t \in HandlerThreads :
        /\ frame[t].op = "delete_guest" /\ frame[t].at = "removed"
        /\ LET n == frame[t].plan.guest_count - 1
           IN plans' = Plan_update(plans, frame[t].plan_id,
                                   OnlyCount(IF n > 0 THEN n ELSE 0), {}).plans
        /\ frame' = [frame EXCEPT ![t] = [@ EXCEPT !.at = "idle", !.status = SUCCESS]]
        /\ served' = [served EXCEPT !.deletes = @ + 1]
        /\ UNCHANGED <<guests, phones, tasks, Stepped>>

\* both users have a plan and uB has added one guest to theirs
InitInvited ==
    /\ supabase \in {"client", None}
    /\ session = None
    /\ valid = Tokens
    /\ plans = [p \in PlanIds |-> IF p = "p1" THEN PlanRow(p, "uA", 0, 0)
                                              ELSE PlanRow(p, "uB", 1, 0)]
    /\ guests = [g \in GuestIds |->
                   IF g = "g2" THEN GuestRow(g, "p2", "pending", FALSE) ELSE NoRow]
    /\ phones = [f \in PhoneIds |-> NoRow]
    /\ tasks = [k \in TaskIds |-> NoRow]
    /\ now = 0
    /\ req = NoRequest
    /\ resp = NoResponse
    /\ calls = {}
    /\ faults = {}
    /\ before = NoSnapshot
    /\ returned = NoReturn
    /\ Imported

\* the handlers that write to one guest, on a guest of the other user's plan
NextGuestWrites ==
    \/ UpdateGuest \/ DeleteGuest \/ UpdateGuestRsvp \/ SendInvitation
    \/ AddGuestPhone \/ Close

SpecGuestWrites == InitInvited /\ [][NextGuestWrites]_vars

\* one request at a time, sent by uA or uB with their token, every gateway
\* call succeeding, no create_plan or update_plan body with guest_count,
\* delete_guest only on a guest of the plan in its path
Succeeds == faults' = {} /\ req'.hdr \in {Bearer("tA"), Bearer("tB")}
NoCountSupplied == req'.body = Null \/ ~Has(req'.body, "guest_count")
OwnGuestNamed == guests[req'.guest] # NoRow /\ guests[req'.guest].plan_id = req'.plan

SerialCreatePlan == CreatePlan /\ Succeeds /\ NoCountSupplied
SerialUpdatePlan == UpdatePlan /\ Succeeds /\ NoCountSupplied
SerialDeletePlan == DeletePlan /\ Succeeds
SerialAddGuest == AddGuest /\ Succeeds
SerialUpdateGuest == UpdateGuest /\ Succeeds
SerialDeleteGuest == DeleteGuest /\ Succeeds /\ OwnGuestNamed

NextSerial ==
    \/ SerialCreatePlan \/ SerialUpdatePlan \/ SerialDeletePlan
    \/ SerialAddGuest \/ SerialUpdateGuest \/ SerialDeleteGuest \/ Close

SpecSerial == InitPlanned /\ [][NextSerial]_vars

\* two threads of the server handling add_guest and delete_guest on one plan
InitThreads ==
    /\ supabase = "client"
    /\ session = None
    /\ valid = Tokens
    /\ plans = [p \in PlanIds |-> IF p = "p1" THEN PlanRow(p, "uA", 0, 0) ELSE NoRow]
    /\ guests = [g \in GuestIds |-> NoRow]
    /\ phones = [f \in PhoneIds |-> NoRow]
    /\ tasks = [k \in TaskIds |-> NoRow]
    /\ now = 0
    /\ req = NoRequest
    /\ resp = NoResponse
    /\ calls = {}
    /\ faults = {}
    /\ before = NoSnapshot
    /\ returned = NoReturn
    /\ Imported

NextThreads ==
    \/ BeginAddGuest \/ StoreGuest \/ CountGuest
    \/ BeginDeleteGuest \/ RemoveGuest \/ UncountGuest

SpecThreads == InitThreads /\ [][NextThreads]_vars

InitOnePlan ==
    /\ supabase \in {"client", None}
    /\ session = None
    /\ valid = Tokens
    /\ plans = [p \in PlanIds |-> IF p = "p1" THEN PlanRow(p, "uA", 0, 0) ELSE NoRow]
    /\ guests = [g \in GuestIds |-> NoRow]
    /\ phones = [f \in PhoneIds |-> NoRow]
    /\ tasks = [k \in TaskIds |-> NoRow]
    /\ now = 0
    /\ req = NoRequest
    /\ resp = NoResponse
    /\ calls = {}
    /\ faults = {}
    /\ before = NoSnapshot
    /\ returned = NoReturn
    /\ Imported

\* guests with phones, added and updated
NextPhones ==
    \/ AddGuestPhones \/ UpdateGuest \/ Close

SpecPhones == InitOnePlan /\ [][NextPhones]_vars

\* the guest list of a plan next to the routes that fill and change it
NextGuestList ==
    \/ AddGuest \/ UpdateGuest \/ GetGuests \/ Close

SpecGuestList == InitOnePlan /\ [][NextGuestList]_vars

\* routes that refuse a request at the guard, at the ownership check or at
\* the body validation, on a store with one plan
NextRefusals ==
    \/ CreatePlan \/ GetPlan \/ AddGuest \/ UpdateGuestRsvp \/ CreateTask \/ Close

SpecRefusals == InitOnePlan /\ [][NextRefusals]_vars

\* the routes of one guest
NextGuest ==
    \/ AddGuest \/ GetGuest \/ UpdateGuest \/ UpdateGuestRsvp
    \/ SendInvitation \/ DeleteGuest \/ Close

SpecGuest == InitOnePlan /\ [][NextGuest]_vars

\* the routes that validate a body under a plan: one plan exists, of uA
NextBodies ==
    \/ AddGuest \/ CreateTask \/ DeleteGuest \/ Close

SpecBodies == InitOnePlan /\ [][NextBodies]_vars

\* reads of plans and guests next to the guest_count writes
NextReads ==
    \/ GetPlans \/ GetStats \/ GetPlan \/ GetGuests \/ AddGuest \/ DeleteGuest \/ Close

SpecReads == InitPlanned /\ [][NextReads]_vars

\* the process from its start: the import, then handlers and their
\* get_client calls
InitProcess ==
    /\ env \in BOOLEAN
    /\ instance = None
    /\ built = 0
    /\ pc = [t \in Threads |-> "idle"]
    /\ handed = [t \in Threads |-> None]
    /\ supabase = None
    /\ session = None
    /\ valid = {}
    /\ plans = [p \in PlanIds |-> NoRow]
    /\ guests = [g \in GuestIds |-> NoRow]
    /\ phones = [f \in PhoneIds |-> NoRow]
    /\ tasks = [k \in TaskIds |-> NoRow]
    /\ now = 0
    /\ req = NoRequest
    /\ resp = NoResponse
    /\ calls = {}
    /\ faults = {}
    /\ before = NoSnapshot
    /\ returned = NoReturn
    /\ Resting

NextClient ==
    \/ EnterGetClient \/ CheckInstance \/ ReadConfig \/ BuildClient \/ ReturnInstance
    \/ Login \/ Logout \/ Close

SpecClient == InitProcess /\ [][NextClient]_vars

\* the entity accessor methods, called in any order
NextAccessors ==
    \/ CallPlanCreate \/ CallPlanGetById \/ CallPlanGetUserPlans \/ CallPlanUpdate
    \/ CallPlanDelete \/ CallGuestCreate \/ CallGuestAddPhoneNumbers
    \/ CallGuestGetById \/ CallGuestGetPlanGuests \/ CallGuestUpdate
    \/ CallGuestDelete \/ CallCreateTask

SpecAccessors == InitOnePlan /\ [][NextAccessors]_vars

\* the guest reads next to the calls that fill the two tables they read
NextGuestReads ==
    \/ CallPlanCreate \/ CallGuestCreate \/ CallGuestGetById
    \/ CallGuestGetPlanGuests \/ CallGuestDelete

SpecGuestReads == InitOnePlan /\ [][NextGuestReads]_vars

\* plan creation and update while time passes
NextClock ==
    \/ CreatePlan \/ UpdatePlan \/ Tick \/ Close

SpecClock == InitLive /\ [][NextClock]_vars

\* auth routes
NextAuth ==
    \/ Signup \/ Login \/ Logout \/ GetUser \/ Close

SpecAuth == Init /\ [][NextAuth]_vars

\* ------------------------------------------------------------------
\* Properties

\* the guest rows that reference a plan
GuestsOf(p) == {g \in GuestIds : guests[g] # NoRow /\ guests[g].plan_id = p}

\* C1: between requests, every stored plan's guest_count equals the number
\* of guest rows whose plan_id is that plan, whatever requests were handled
\* and whichever gateway calls failed.
GuestCountMatches ==
    \A p \in PlanIds :
        plans[p] # NoRow => plans[p].guest_count = Cardinality(GuestsOf(p))

\* C2: on every plan-scoped route, an authenticated request for a plan that
\* another user owns gets the same status and body as the same request for
\* a plan id that does not exist.
ForeignAsMissing ==
    \A u \in Users, p \in PlanIds, q \in PlanIds :
        (/\ AuthGetUser(TokenOf(u)) = u
         /\ plans[p] # NoRow /\ plans[p].user_id # u
         /\ plans[q] = NoRow)
        => \A ep \in PlanScoped, g \in GuestIds :
               \A body \in BodiesOf(ep) :
                   Dispatch(ep, Bearer(TokenOf(u)), p, g, body, {}).resp
                       = Dispatch(ep, Bearer(TokenOf(u)), q, g, body, {}).resp

\* the header is missing, is not 'Bearer <token>', or carries a token the
\* auth service does not resolve
NoBearerToken(hdr) == hdr.scheme # "Bearer " \/ hdr.token \notin valid

OwnerScoped == PlanScoped \cup {"create_plan", "get_plans", "get_stats"}

\* C3: an owner-scoped request without a resolvable bearer token is answered
\* 401 and no Plan, Guest or EventTask accessor is invoked for it.
UnauthenticatedRejected ==
    (req.ep \in OwnerScoped /\ NoBearerToken(req.hdr))
    => resp.status = UNAUTHORISED_ACCESS /\ calls = {}

\* C4: when an add_guest answered 201 is followed directly by a delete_guest
\* on the same plan answered 201, the plan's guest_count is again what it
\* was before the add; and no stored guest_count is below zero.
AddThenDeleteRestores ==
    [][(/\ req.ep = "add_guest" /\ resp.status = 201
        /\ req'.ep = "delete_guest" /\ resp'.status = SUCCESS)
       => /\ plans'[req.plan].guest_count = before.plans[req.plan].guest_count
          /\ plans'[req.plan].guest_count >= 0]_vars

\* C5: a GET /user carrying a token that a login issued and that is still
\* live returns the id of the user that token was issued to, whatever
\* login, logout and signup requests the process handled in between.
TokenIdentifiesUser ==
    (/\ req.ep = "get_user" /\ faults = {}
     /\ req.hdr.scheme = "Bearer " /\ req.hdr.token \in valid)
    => resp.status = SUCCESS /\ resp.user = UserOf(req.hdr.token)

\* C6: handling a request changes no state held by the process: the cached
\* client, and the session it holds, stay as they were.
ProcessStateless == [][supabase' = supabase /\ session' = session]_vars

\* C7: once a logout carrying 'Bearer t' has succeeded, a GET /user carrying
\* the same header is answered 401 or 403; and a logout carrying one user's
\* token leaves every other user's token live.
LogoutEndsOwnSession ==
    [][/\ (/\ req.ep = "logout" /\ resp.status = SUCCESS
            /\ req.hdr.scheme = "Bearer " /\ req.hdr.token \in Tokens
            /\ req'.ep = "get_user" /\ req'.hdr = req.hdr)
           => resp'.status \in {UNAUTHORISED_ACCESS, 403}
       /\ req'.ep = "logout"
           => \A t \in valid : t # req'.hdr.token => t \in valid']_vars

\* the request comes from the owner of the plan it names
ByOwner ==
    /\ req.hdr.scheme = "Bearer " /\ req.hdr.token \in valid
    /\ before.plans[req.plan] # NoRow
    /\ before.plans[req.plan].user_id = UserOf(req.hdr.token)

\* C8: an owner's rsvp request whose rsvp_status is absent or not one of
\* pending, confirmed, declined, maybe is answered 400, Guest.update_rsvp is
\* not called and the stored guests are unchanged.
InvalidRsvpRejected ==
    (/\ req.ep = "update_guest_rsvp" /\ ByOwner /\ faults = {}
     /\ \/ NoData(req.body)
        \/ Falsy(req.body, "rsvp_status")
        \/ req.body.rsvp_status \notin {"pending", "confirmed", "declined", "maybe"})
    => /\ resp.status = ERROR
       /\ "Guest.update_rsvp" \notin calls
       /\ guests = before.guests

\* the request carries a header the authorization guard resolves to a user
Authenticated == get_current_user(req.hdr, faults) # None

\* the ISO-8601 date strings among the event dates that clients send
IsoDates == {ZDate, "2026-06-01T10:00:00+00:00"}

\* the create-plan body (JSON null or a JSON object) lacks title or
\* event_date, or its event_date is not an ISO-8601 date
InvalidPlanBody(body) ==
    \/ NoData(body)
    \/ Falsy(body, "title")
    \/ Falsy(body, "event_date")
    \/ body.event_date \notin IsoDates

SameButStamp(a, b) == [a EXCEPT !.updated_at = 0] = [b EXCEPT !.updated_at = 0]

\* a successful plan update directly followed by the same request again,
\* successful again
UpdatedTwice ==
    /\ req.ep = "update_plan" /\ resp.status = SUCCESS
    /\ before.req = req /\ before.status = SUCCESS

\* C10 as stated: the second of two identical plan updates in a row leaves
\* the stored plan record exactly as the first left it.
UpdateTwiceSameRecord ==
    UpdatedTwice => plans[req.plan] = before.plans[req.plan]

\* C10, amended: the second of two identical plan updates in a row leaves
\* the stored plan record as the first left it except for updated_at,
\* which holds the time of the second call.
UpdateTwiceSameButStamp ==
    UpdatedTwice
    => /\ SameButStamp(plans[req.plan], before.plans[req.plan])
       /\ plans[req.plan].updated_at = before.at

\* the second update came later than the first and re-stamped the record
UpdatedTwiceLater ==
    /\ UpdatedTwice
    /\ plans[req.plan].updated_at # before.plans[req.plan].updated_at


\* the same update_guest request answered twice in a row, both times with
\* the updated guest
GuestUpdatedTwice ==
    /\ before # NoSnapshot
    /\ req.ep = "update_guest"
    /\ before.req = req
    /\ before.status = SUCCESS
    /\ resp.status = SUCCESS

\* C11: updating a guest twice in a row with the same payload leaves the
\* stored guest record and phone records after the second call as they were
\* after the first, and both calls return the same guest representation.
GuestUpdateTwiceSame ==
    GuestUpdatedTwice =>
        /\ guests = before.guests
        /\ phones = before.phones
        /\ resp.guest = before.guest

\* a guest with a phone, given the status confirmed twice
GuestWithPhoneUpdatedTwice ==
    /\ GuestUpdatedTwice
    /\ Has(req.body, "rsvp_status")
    /\ resp.guest.row.rsvp_status = "confirmed"
    /\ resp.guest.phone_numbers # {}

\* the numbers of the phone entries add_guest hands to Guest.create
NumbersSent(body) == {PhoneList(body)[i].number : i \in 1..Len(PhoneList(body))}

\* C12: whenever POST /<plan_id>/guests answers 201 for a body with k
\* phone entries, the returned guest's phone_numbers has exactly k entries
\* matching the input, and the plan's stored guest_count is one more than
\* it was before the request.
AddedGuestComplete ==
    (req.ep = "add_guest" /\ resp.status = 201) =>
        /\ Cardinality(resp.guest.phone_numbers) = Len(PhoneList(req.body))
        /\ {f.phone_number : f \in resp.guest.phone_numbers} = NumbersSent(req.body)
        /\ plans[req.plan].guest_count = before.plans[req.plan].guest_count + 1

\* the safe empty value of each kind of accessor method
SafeEmpty(ret) ==
    CASE ret.kind = "single" -> ret.val = NoRow
      [] ret.kind = "list" -> ret.val = {}
      [] ret.kind = "delete" -> ret.val = FALSE
      [] OTHER -> TRUE

\* C13: an entity accessor method, when any gateway call it makes raises,
\* returns its safe empty value: None for a single record, [] for a
\* collection, False for a delete.
RaisedReturnsEmpty ==
    returned.raised # {} => SafeEmpty(returned)

\* gateway calls whose failure leaves the accessor method the handler called
\* with a falsy or empty result
AccessorFailures ==
    {"plans.insert", "plans.select", "plans.update", "plans.delete",
     "guests.insert", "guests.select", "guests.update", "guests.delete",
     "guest_phones.select", "event_tasks.insert"}

\* C14: whenever an entity accessor called by a handler returns a falsy or
\* empty result because its gateway call failed, the handler answers 500:
\* list reads, the guest_count writes of add_guest and delete_guest, and
\* single-record operations alike.
FailedAccessorAnswered500 ==
    (req.ep \in PlanScoped \cup {"get_plans", "get_stats", "create_plan"}
       /\ faults \cap AccessorFailures # {}) => resp.status = 500

\* the statuses of the error taxonomy
ErrorStatuses == {400, 401, 404, 500}

\* C15: every error response has a body {"error": <message>} and a status
\* among 400, 401, 404 and 500; no handler path yields an error with any
\* other status.
ErrorsInTaxonomy ==
    resp.status >= 400 => (resp.error # "" /\ resp.status \in ErrorStatuses)

\* the routes under /<plan_id>/guests/<guest_id>
GuestRoutes ==
    {"get_guest", "update_guest", "delete_guest", "update_guest_rsvp", "send_invitation"}

\* the plan's owner named a guest id that has no record, with a body the
\* route accepts, and no gateway call raised
MissingGuestNamed ==
    /\ req.ep \in GuestRoutes
    /\ before.plans[req.plan] # NoRow
    /\ req.hdr # NoHeader
    /\ req.hdr.token = TokenOf(before.plans[req.plan].user_id)
    /\ before.guests[req.guest] = NoRow
    /\ faults = {}
    /\ req.ep = "update_guest" => ~NoData(req.body)
    /\ req.ep = "update_guest_rsvp" =>
           (req.body # Null /\ ~Falsy(req.body, "rsvp_status")
              /\ req.body.rsvp_status \in RSVP_OPTIONS)

\* C16: a request by the plan's owner that names a guest id with no
\* matching record is answered 404 and changes nothing in the store.
MissingGuestNotFound ==
    MissingGuestNamed =>
        /\ resp.status = NOT_FOUND
        /\ plans = before.plans
        /\ guests = before.guests
        /\ phones = before.phones

\* an add_guest or create_task request whose body is missing, lacks the
\* required field (name, title) or carries a due_date that is no ISO date
InvalidScopedBody ==
    \/ /\ req.ep = "add_guest"
       /\ (NoData(req.body) \/ Falsy(req.body, "name"))
    \/ /\ req.ep = "create_task"
       /\ \/ NoData(req.body)
          \/ Falsy(req.body, "title")
          \/ (~Falsy(req.body, "due_date") /\ req.body.due_date \notin IsoDates)

ClientBuiltOnceAndKept ==
    [][/\ built' <= 1
       /\ \A t \in Threads : handed'[t] \in {None, "ValueError", instance'}
       /\ instance # None => (instance' = instance /\ session' = session)]_vars

\* the body of a signup or login request lacks email or password
LacksCredentials ==
    /\ req.ep \in {"signup", "login"}
    /\ (req.body = Null \/ Falsy(req.body, "email") \/ Falsy(req.body, "password"))

\* the auth service was asked to sign the caller in and refused
LoginRejected ==
    /\ req.ep = "login"
    /\ "auth.sign_in_with_password" \in calls
    /\ (faults # {} \/ req.body.password # GoodPassword)

RsvpStatusValid ==
    /\ \A g \in GuestIds :
           guests[g] # NoRow => guests[g].rsvp_status \in RSVP_OPTIONS
    /\ (req.ep = "add_guest" /\ resp.status = 201 /\ ~Has(req.body, "rsvp_status"))
           => resp.guest.row.rsvp_status = "pending"

\* Guest.get_plan_guests(plan) returned without a gateway call raising
PlanGuestsFetched ==
    returned.method = "Guest.get_plan_guests" /\ returned.raised = {}

\* C21: Guest.get_plan_guests(plan) returns exactly the guest records whose
\* plan_id is plan, each with exactly the phone records whose guest_id is
\* its id: the phone list Guest.get_by_id returns for that guest.
PlanGuestsWithOwnPhones ==
    PlanGuestsFetched =>
        /\ {j.row : j \in returned.val} =
               {guests[g] : g \in {h \in GuestIds : guests[h] # NoRow
                                       /\ guests[h].plan_id = returned.arg}}
        /\ \A j \in returned.val :
               /\ j.phone_numbers =
                      {phones[f] : f \in {k \in PhoneIds : phones[k] # NoRow
                                              /\ phones[k].guest_id = j.row.id}}
               /\ j = GuestJson(j.row, phones,
                                Guest_get_by_id(guests, phones, j.row.id, {}).phone_numbers)

\* two guests of the plan fetched, one with a phone and one without
TwoGuestsOnePhone ==
    /\ PlanGuestsFetched
    /\ Cardinality(returned.val) = 2
    /\ \E j \in returned.val : j.phone_numbers # {}
    /\ \E j \in returned.val : j.phone_numbers = {}

\* C22: get_current_user returns a user only when the Authorization header
\* is present, starts with 'Bearer ' and the auth service resolves the
\* token it carries; with no header, another scheme, an empty token or an
\* auth service that raises or returns nothing it returns None.
GuardResolvesTokenOnly ==
    \A hdr \in Headers, F \in Faults({"auth.get_user"}) :
        get_current_user(hdr, F) # None =>
            /\ hdr # NoHeader
            /\ hdr.scheme = "Bearer "
            /\ hdr.token # ""
            /\ F = {}
            /\ hdr.token \in valid
            /\ get_current_user(hdr, F) = UserOf(hdr.token)

\* the sum of the four counters of an rsvp_stats histogram
StatsTotal(stats) ==
    stats["pending"] + stats["confirmed"] + stats["declined"] + stats["maybe"]

\* C23: GET /<plan_id>/guests returns count equal to the number of guests
\* fetched and, for each of the four statuses, rsvp_stats[s] equal to the
\* number of fetched guests with that status, so the four counts sum to
\* count.
HistogramSumsToCount ==
    (req.ep = "get_guests" /\ resp.status = SUCCESS /\ faults = {}) =>
        /\ resp.listing.count = Cardinality(GuestsOf(req.plan))
        /\ \A st \in RSVP_OPTIONS :
               resp.listing.rsvp_stats[st] =
                   Cardinality({g \in GuestsOf(req.plan) : guests[g].rsvp_status = st})
        /\ StatsTotal(resp.listing.rsvp_stats) = resp.listing.count

\* the body of an add_guest request has a legacy phone and no phone_numbers
LegacyPhoneOnly ==
    /\ req.ep = "add_guest"
    /\ req.body # Null
    /\ ~Falsy(req.body, "phone")
    /\ (~Has(req.body, "phone_numbers") \/ req.body.phone_numbers = <<>>)

\* an owner's add_guest request names the guest and carries a phone_numbers
\* entry without number
EntryLacksNumber ==
    /\ req.ep = "add_guest"
    /\ ByOwner
    /\ faults = {}
    /\ req.body # Null
    /\ ~Falsy(req.body, "name")
    /\ Has(req.body, "phone_numbers")
    /\ \E i \in 1..Len(req.body.phone_numbers) : Falsy(req.body.phone_numbers[i], "number")

\* the phone rows stored by the request just handled
NewPhones == {phones[f] : f \in {k \in PhoneIds : before.phones[k] = NoRow
                                                    /\ phones[k] # NoRow}}

\* C24: add_guest with a legacy phone and no phone_numbers list creates
\* exactly one phone record for the new guest, with that number, type
\* mobile and is_primary true; with a phone_numbers entry that lacks a
\* number it answers 400 and creates neither a guest nor a phone record.
LegacyPhoneStoredOnce ==
    /\ (LegacyPhoneOnly /\ resp.status = 201) =>
           /\ Cardinality(NewPhones) = 1
           /\ \A f \in NewPhones :
                  /\ f.guest_id = resp.guest.row.id
                  /\ f.phone_number = req.body.phone
                  /\ f.phone_type = "mobile"
                  /\ f.is_primary = TRUE
    /\ EntryLacksNumber =>
           (resp.status = ERROR /\ guests = before.guests /\ phones = before.phones)

\* the handlers that write to the guest named in the path
GuestWriteRoutes ==
    {"update_guest", "delete_guest", "update_guest_rsvp", "send_invitation",
     "add_guest_phone"}

\* the request just handled changed or deleted its guest, or added a phone to it
WroteToGuest ==
    /\ req.ep \in GuestWriteRoutes
    /\ before.guests[req.guest] # NoRow
    /\ \/ guests[req.guest] # before.guests[req.guest]
       \/ \E f \in PhoneIds : /\ before.phones[f] = NoRow
                              /\ phones[f] # NoRow
                              /\ phones[f].guest_id = req.guest

\* C25: a guest-scoped write handler modifies or deletes a guest, or adds a
\* phone to it, only when the guest's plan_id equals the plan_id in the path,
\* so that no user changes a guest of a plan they do not own.
GuestWritesWithinPlan ==
    WroteToGuest => before.guests[req.guest].plan_id = req.plan

\* C26: the user_id (owner) and id of a plan never change after creation;
\* no request, in particular no PUT /<plan_id> payload, alters them.
PlanOwnerAndIdKept ==
    [][\A p \in PlanIds :
          (plans[p] # NoRow /\ plans'[p] # NoRow) =>
              /\ plans'[p].user_id = plans[p].user_id
              /\ plans'[p].id = plans[p].id]_vars

\* no add_guest or delete_guest invocation is under way
ThreadsIdle == \A t \in HandlerThreads : frame[t].at = "idle"

\* C27: in any interleaving of add_guest and delete_guest on one plan, two
\* concurrent adds included, the plan's guest_count changes by the number
\* of successful adds minus the number of successful deletes.
CountFollowsAddsAndDeletes ==
    (ThreadsIdle /\ plans["p1"] # NoRow) =>
        plans["p1"].guest_count = served.adds - served.deletes

\* C28: when add_guest answers with an error status (400, 401, 404 or 500),
\* the request persisted no guest record and no phone record; a 500 leaves
\* no guest behind that guest_count does not count.
FailedAddStoresNothing ==
    (req.ep = "add_guest"
     /\ resp.status \in {ERROR, UNAUTHORISED_ACCESS, NOT_FOUND, 500}) =>
        (guests = before.guests /\ phones = before.phones)

\* C29: in a serial execution in which every gateway call succeeds, no
\* create_plan or update_plan body supplies guest_count and every
\* delete_guest names a guest of the plan in its path, each plan's
\* guest_count equals the number of its guest records after every request.
SerialCountMatches ==
    \A p \in PlanIds :
        plans[p] # NoRow => Cardinality(GuestsOf(p)) = plans[p].guest_count

\* the request just handled was answered with 400, 401, 403 or 404
Refused ==
    /\ req.ep \in OwnerScoped
    /\ resp.status \in {ERROR, UNAUTHORISED_ACCESS, 403, NOT_FOUND}

\* C30: a request to a plans route that is answered with 400, 401, 403 or 404
\* leaves plans, guests, guest_phones and event_tasks unchanged: no handler
\* writes before authentication, ownership and body validation have passed.
RefusedLeavesStore ==
    Refused => /\ plans = before.plans
               /\ guests = before.guests
               /\ phones = before.phones
               /\ tasks = before.tasks

\* the owner's create_task was refused for its body, on a plan with a guest
OwnerRefusedForBody ==
    /\ req.ep = "create_task"
    /\ ByOwner
    /\ resp.status = ERROR
    /\ req.body # Null
    /\ GuestsOf(req.plan) # {}

====
